---------------------------- MODULE Spec2Model ----------------------------
(* Faucet: the worker-process supervisor (src/worker.rs) and the            *)
(* load-balancer facade (src/load_balancing/mod.rs) as a state machine.     *)
(*                                                                          *)
(* Worker objects are identified by their creation order 1, 2, ...; the     *)
(* fields of Worker w are stop[w] and socket_addr[w], its supervisor task   *)
(* (the future given to tokio::spawn in spawn_worker_task) is at pc[w] and  *)
(* holds the Child handle child[w].  OS processes of Worker w are numbered  *)
(* by generation; procs[w] is the set of those currently alive.             *)
EXTENDS Integers, Sequences, FiniteSets, TLC

\* ------------------------------------------------------------------ bounds
MaxWorkers == 2     \* Workers a pool may hold
MaxLaunches == 3    \* subprocesses launched over the whole run
NumPorts   == 2     \* ephemeral ports the OS hands out
MaxTargets == 3     \* length of the snapshot a LoadBalancer is built over
MaxClones  == 2     \* clones taken of the LoadBalancer
MaxCalls   == 4     \* get_client calls over the whole run
MaxCallers == 2     \* get_client calls in flight at once
NumIps     == 2     \* client addresses

WorkerIds == 1..MaxWorkers
Ports     == 1..NumPorts
Ips       == 1..NumIps

VARIABLES
  workers,      \* Workers.workers: Vec<Worker>, as the sequence of Worker ids
  pool,         \* "alive" | "dropped": whether the Workers value still exists
  call,         \* the Workers::spawn call in progress or last finished
  addrs,        \* the Vec last returned by get_socket_addrs
  stop,         \* Worker.stop: Arc<AtomicBool>
  socket_addr,  \* Worker.socket_addr (the port; the host is always 127.0.0.1)
  pc,           \* position of the supervisor task of each Worker
  result,       \* what the supervisor task returned
  child,        \* the Child handle the task holds (a process number)
  gen,          \* number of subprocesses launched for the Worker so far
  procs,        \* live OS processes of each Worker
  listening,    \* those of procs that have bound the Worker's port
  stopAtExit,   \* history: value of stop[w] when the child last waited on exited
  genAtStop     \* history: value of gen[w] when stop[w] was set

wvars == <<workers, pool, call, addrs, stop, socket_addr, pc, result, child,
           gen, procs, listening, stopAtExit, genAtStop>>

VARIABLES
  token,        \* the configuration token naming the strategy
  snapshot,     \* the workers slice LoadBalancer::new is given
  strategyArg,  \* "unparsed", then what Strategy::from_str made of the token
  extractorArg, \* the IpExtractor it is given
  lbState,      \* "none" | "ok" | "err": what LoadBalancer::new returned
  strategies,   \* the strategy objects behind the Arcs, in allocation order
  lbs,          \* the LoadBalancer values: the one built, then its clones
  log,          \* history: the entry() calls on the strategy, in call order
  pending       \* get_client calls that have run entry() and not yet returned

lvars == <<token, snapshot, strategyArg, extractorArg, lbState, strategies, lbs, log, pending>>

vars == <<wvars, lvars>>

\* ------------------------------------------------------------ OS processes
\* A port is taken while some live process listens on it.
PortInUse(p) ==
  \E w \in WorkerIds : socket_addr[w] = p /\ listening[w] # {}

\* Ports are named in the order the OS first hands them out, so a port is
\* either one some Worker was given before or the next unnamed one.
HandedOut(p) == \E w \in WorkerIds : socket_addr[w] = p

\* TcpListener::bind("127.0.0.1:0")?.local_addr(): the ports the OS may hand
\* out, any port nobody listens on; the throwaway listener is dropped as the
\* function returns, so the port is not held afterwards.
get_available_socket ==
  {p \in Ports : ~PortInUse(p) /\ \A q \in 1..(p - 1) : HandedOut(q)}

\* A Command built without kill_on_drop(true): dropping the handle leaves
\* the process running.
KillOnDropNot(w) == UNCHANGED <<procs, listening>>

\* kill_on_drop(true): dropping the Child handle kills the process it names.
KillOnDrop(w) ==
  /\ procs' = [procs EXCEPT ![w] = @ \ {child[w]}]
  /\ listening' = [listening EXCEPT ![w] = @ \ {child[w]}]

\* A wait that does not wait: it completes whether or not the process has exited.
WaitReturnsEarly(w) == TRUE

\* child.wait() completes once the process the handle names has exited.
WaitReturns(w) == child[w] \notin procs[w]

RECURSIVE Launched(_)
Launched(n) == IF n = 0 THEN 0 ELSE gen[n] + Launched(n - 1)

\* Command::spawn() of spawn_plumber_worker / spawn_shiny_worker succeeding:
\* a new process, numbered gen[w] + 1, starts running.
SpawnProcess(w) ==
  /\ Launched(MaxWorkers) < MaxLaunches
  /\ gen' = [gen EXCEPT ![w] = @ + 1]
  /\ procs' = [procs EXCEPT ![w] = @ \cup {gen[w] + 1}]
  /\ UNCHANGED listening

\* ------------------------------------------------------- the supervisor task
\* line 130: the initial spawn_process(...)? inside the task.
TaskSpawnInitial(w) ==
  /\ pc[w] = "start"
  /\ \/ /\ SpawnProcess(w)
        /\ child' = [child EXCEPT ![w] = gen[w] + 1]
        /\ pc' = [pc EXCEPT ![w] = "check"]
        /\ UNCHANGED result
     \/ /\ pc' = [pc EXCEPT ![w] = "done"]
        /\ result' = [result EXCEPT ![w] = "ErrSpawn"]
        /\ UNCHANGED <<gen, procs, child, listening>>
  /\ UNCHANGED <<workers, pool, call, addrs, stop, socket_addr, stopAtExit, genAtStop>>
  /\ UNCHANGED lvars

\* A load that never sees the flag set.
StopObservedNever(w) == FALSE

\* line 133: stop.clone().load(SeqCst)
StopObserved(w) == stop[w]

\* lines 133-136: the load of the stop flag at the top of the loop.
TaskCheckStop(w) ==
  /\ pc[w] = "check"
  /\ IF StopObserved(w)
       THEN /\ pc' = [pc EXCEPT ![w] = "done"]
            /\ result' = [result EXCEPT ![w] = "Ok"]
            /\ KillOnDrop(w)
            /\ child' = [child EXCEPT ![w] = 0]
       ELSE /\ pc' = [pc EXCEPT ![w] = "wait"]
            /\ UNCHANGED <<result, procs, listening, child>>
  /\ UNCHANGED <<workers, pool, call, addrs, stop, socket_addr, gen, stopAtExit, genAtStop>>
  /\ UNCHANGED lvars

\* line 137: child.wait().await? returns a status, or an error that ends the task.
TaskWait(w) ==
  /\ pc[w] = "wait"
  /\ \/ /\ WaitReturns(w)
        /\ pc' = [pc EXCEPT ![w] = "respawn"]
        /\ UNCHANGED <<result, procs, listening, child>>
     \/ /\ pc' = [pc EXCEPT ![w] = "done"]
        /\ result' = [result EXCEPT ![w] = "ErrWait"]
        /\ KillOnDrop(w)
        /\ child' = [child EXCEPT ![w] = 0]
  /\ UNCHANGED <<workers, pool, call, addrs, stop, socket_addr, gen, stopAtExit, genAtStop>>
  /\ UNCHANGED lvars

\* lines 138-139: log the status, then evaluate spawn_process(...)?.  On
\* success the new process runs while `child` still names the old one; on
\* failure the task returns the error and the handle it holds is dropped.
TaskRespawn(w) ==
  /\ pc[w] = "respawn"
  /\ \/ /\ SpawnProcess(w)
        /\ pc' = [pc EXCEPT ![w] = "assign"]
        /\ UNCHANGED <<result, child>>
     \/ /\ pc' = [pc EXCEPT ![w] = "done"]
        /\ result' = [result EXCEPT ![w] = "ErrRespawn"]
        /\ KillOnDrop(w)
        /\ child' = [child EXCEPT ![w] = 0]
        /\ UNCHANGED gen
  /\ UNCHANGED <<workers, pool, call, addrs, stop, socket_addr, stopAtExit, genAtStop>>
  /\ UNCHANGED lvars

\* line 139: the assignment child = <new handle> drops the handle held before.
TaskAssign(w) ==
  /\ pc[w] = "assign"
  /\ KillOnDrop(w)
  /\ child' = [child EXCEPT ![w] = gen[w]]
  /\ pc' = [pc EXCEPT ![w] = "check"]
  /\ UNCHANGED <<workers, pool, call, addrs, stop, socket_addr, result, gen, stopAtExit, genAtStop>>
  /\ UNCHANGED lvars

\* ------------------------------------------------------------ environment
\* The subprocess ends on its own (the R process crashes or finishes).
ChildExit(w) ==
  /\ \E p \in procs[w] :
       /\ procs' = [procs EXCEPT ![w] = @ \ {p}]
       /\ listening' = [listening EXCEPT ![w] = @ \ {p}]
       /\ stopAtExit' = [stopAtExit EXCEPT ![w] = IF p = child[w] THEN stop[w] ELSE @]
  /\ UNCHANGED <<workers, pool, call, addrs, stop, socket_addr, pc, result, child, gen,
                 genAtStop>>
  /\ UNCHANGED lvars

\* The subprocess starts serving: it binds the port it was told, if it is free.
ChildBind(w) ==
  /\ \E p \in procs[w] \ listening[w] :
       /\ ~PortInUse(socket_addr[w])
       /\ listening' = [listening EXCEPT ![w] = @ \cup {p}]
  /\ UNCHANGED <<workers, pool, call, addrs, stop, socket_addr, pc, result, child,
                 gen, procs, stopAtExit, genAtStop>>
  /\ UNCHANGED lvars

\* ------------------------------------------------------------------ Worker
\* spawn_worker_task: tokio::spawn of the supervisor future; the task starts
\* at the initial spawn_process and the JoinHandle is returned at once.
spawn_worker_task(w) ==
  /\ pc' = [pc EXCEPT ![w] = "start"]
  /\ UNCHANGED <<result, child, gen, procs, listening, stopAtExit, genAtStop>>

\* A Worker::new that creates the flag as AtomicBool::new(true).
Worker_new_stopped(w, p) ==
  /\ stop' = [stop EXCEPT ![w] = TRUE]
  /\ socket_addr' = [socket_addr EXCEPT ![w] = p]
  /\ spawn_worker_task(w)

\* Worker::new succeeding for the Worker numbered w with the port p reserved:
\* stop = false, the supervisor task spawned, Ok(Self {..}) returned.
Worker_new(w, p) ==
  /\ stop' = [stop EXCEPT ![w] = FALSE]
  /\ socket_addr' = [socket_addr EXCEPT ![w] = p]
  /\ spawn_worker_task(w)

\* A Drop over one flag shared by all the Workers of the pool: the store
\* stops every one of them.
DropShared(w) ==
  /\ pool = "dropped"
  /\ w \in 1..Len(workers)
  /\ ~stop[workers[w]]
  /\ \A i \in 1..(w - 1) : stop[workers[i]]
  /\ stop' = [v \in WorkerIds |-> IF v \in 1..Len(workers) THEN TRUE ELSE stop[v]]
  /\ genAtStop' = [genAtStop EXCEPT ![workers[w]] = gen[workers[w]]]
  /\ UNCHANGED <<workers, pool, call, addrs, socket_addr, pc, result, child, gen,
                 procs, listening, stopAtExit>>
  /\ UNCHANGED lvars

\* Drop for Worker: the store of true into the stop flag, nothing else.
Drop(w) ==
  /\ pool = "dropped"
  /\ w \in 1..Len(workers)
  /\ ~stop[workers[w]]
  /\ \A i \in 1..(w - 1) : stop[workers[i]]
  /\ stop' = [stop EXCEPT ![workers[w]] = TRUE]
  /\ genAtStop' = [genAtStop EXCEPT ![workers[w]] = gen[workers[w]]]
  /\ UNCHANGED <<workers, pool, call, addrs, socket_addr, pc, result, child, gen,
                 procs, listening, stopAtExit>>
  /\ UNCHANGED lvars

\* ----------------------------------------------------------------- Workers
\* An insertion at the front instead of a push at the back.
PushFront(ws, w) == <<w>> \o ws

\* self.workers.push(worker)
Push(ws, w) == Append(ws, w)

\* Workers::get_socket_addrs: self.workers.iter().map(|w| w.socket_addr).collect()
get_socket_addrs(ws) == [i \in 1..Len(ws) |-> socket_addr[ws[i]]]

\* Workers::spawn(n) is entered; n = 0 returns Ok(()) without an iteration.
Workers_spawn(n) ==
  /\ pool = "alive"
  /\ call.state # "running"
  /\ Len(workers) + n <= MaxWorkers
  /\ call' = [state |-> IF n = 0 THEN "ok" ELSE "running",
              n |-> n, left |-> n, base |-> Len(workers)]
  /\ UNCHANGED <<workers, pool, addrs, stop, socket_addr, pc, result, child, gen,
                 procs, listening, stopAtExit, genAtStop>>
  /\ UNCHANGED lvars

\* A loop that swallows the error of Worker::new and goes on to the next
\* iteration.
AfterFailureContinue(c) ==
  [c EXCEPT !.left = @ - 1, !.state = IF c.left = 1 THEN "ok" ELSE "running"]

\* The `?` on Worker::new in the loop of Workers::spawn: the error is
\* returned at once, the remaining iterations are not run.
AfterFailure(c) == [c EXCEPT !.state = "err"]

\* One iteration of the loop of Workers::spawn: Worker::new(..)? and the push.
\* Worker::new fails when get_available_socket()? does.
SpawnIteration ==
  /\ call.state = "running"
  /\ \/ \E p \in get_available_socket :
          LET w == Len(workers) + 1 IN
          /\ Worker_new(w, p)
          /\ workers' = Push(workers, w)
          /\ call' = [call EXCEPT !.left = @ - 1,
                                  !.state = IF call.left = 1 THEN "ok" ELSE "running"]
     \/ /\ call' = AfterFailure(call)
        /\ UNCHANGED <<workers, stop, socket_addr, pc, result, child, gen, procs,
                       listening, stopAtExit, genAtStop>>
  /\ UNCHANGED <<pool, addrs>>
  /\ UNCHANGED lvars

\* A caller takes the address snapshot.
GetSocketAddrs ==
  /\ pool = "alive"
  /\ call.state # "running"
  /\ addrs' = get_socket_addrs(workers)
  /\ UNCHANGED <<workers, pool, call, stop, socket_addr, pc, result, child, gen,
                 procs, listening, stopAtExit, genAtStop>>
  /\ UNCHANGED lvars

\* The Workers value goes out of scope: its Vec<Worker> is dropped, which
\* runs Drop for each Worker in order (the Drop steps above).  No call on
\* the value is in progress, and the record of its last spawn call goes with it.
DropWorkers ==
  /\ pool = "alive"
  /\ call.state # "running"
  /\ pool' = "dropped"
  /\ call' = [state |-> "idle", n |-> 0, left |-> 0, base |-> 0]
  /\ UNCHANGED <<workers, addrs, stop, socket_addr, pc, result, child, gen,
                 procs, listening, stopAtExit, genAtStop>>
  /\ UNCHANGED lvars

\* ------------------------------------------------------------- strategies
\* RoundRobin::new(workers)?: one Client per address, in order, and a counter
\* at zero; an empty list is an error.
RoundRobin_new(ws) ==
  IF Len(ws) = 0
    THEN [ok |-> FALSE]
    ELSE [ok |-> TRUE,
          obj |-> [kind |-> "RoundRobin", targets |-> ws, counter |-> 0]]

\* IpHash::new(workers)?: one Client per address, in order; an empty list is
\* an error.
IpHash_new(ws) ==
  IF Len(ws) = 0
    THEN [ok |-> FALSE]
    ELSE [ok |-> TRUE,
          obj |-> [kind |-> "IpHash", targets |-> ws, counter |-> 0]]

\* The hash of an address: a fixed function of the address alone.
hash(ip) == (ip * 31 + 17) % 251

\* RoundRobin's entry(ip): one atomic fetch-and-increment of the counter; the
\* value fetched, modulo the number of targets, indexes the target returned.
RoundRobin_entry(obj, ip) ==
  [obj    |-> [obj EXCEPT !.counter = @ + 1],
   ticket |-> obj.counter,
   client |-> obj.targets[(obj.counter % Len(obj.targets)) + 1]]

\* IpHash's entry(ip): targets[hash(ip) mod N]; no counter is touched.
IpHash_entry(obj, ip) ==
  [obj    |-> obj,
   ticket |-> -1,
   client |-> obj.targets[(hash(ip) % Len(obj.targets)) + 1]]

\* LoadBalancingStrategy::entry through the Arc<dyn ...>: dynamic dispatch on
\* the object's type.
entry(obj, ip) ==
  IF obj.kind = "RoundRobin" THEN RoundRobin_entry(obj, ip) ELSE IpHash_entry(obj, ip)

\* ---------------------------------------------------------------- Strategy
\* A from_str whose catch-all arm falls back to round-robin.
from_str_default(s) ==
  IF s = "ip_hash"
    THEN [ok |-> TRUE, v |-> "IpHash"]
    ELSE [ok |-> TRUE, v |-> "RoundRobin"]

\* impl FromStr for Strategy: the match on the string.
from_str(s) ==
  IF s = "round_robin" THEN [ok |-> TRUE, v |-> "RoundRobin"]
  ELSE IF s = "ip_hash" THEN [ok |-> TRUE, v |-> "IpHash"]
  ELSE [ok |-> FALSE, v |-> "invalid strategy"]

\* The configuration token is parsed; on Err no Strategy exists.
ParseStrategy ==
  /\ strategyArg = "unparsed"
  /\ strategyArg' = from_str(token).v
  /\ UNCHANGED <<token, snapshot, extractorArg, lbState, strategies, lbs, log, pending>>
  /\ UNCHANGED wvars

\* ------------------------------------------------------------ LoadBalancer
\* A LoadBalancer::new that does not propagate the constructor's error and
\* builds the strategy over whatever list it was given.
LoadBalancer_new_unchecked(strategy, extractor, ws) ==
  [ok |-> TRUE,
   strategy |-> [kind |-> strategy, targets |-> ws, counter |-> 0],
   extractor |-> extractor]

\* The match of LoadBalancer::new with its two arms exchanged.
LoadBalancer_new_swapped(strategy, extractor, ws) ==
  LET made == IF strategy = "RoundRobin" THEN IpHash_new(ws) ELSE RoundRobin_new(ws)
  IN  IF made.ok
        THEN [ok |-> TRUE, strategy |-> made.obj, extractor |-> extractor]
        ELSE [ok |-> FALSE]

\* LoadBalancer::new: the match on the Strategy, `?` on the constructor, and
\* Ok(Self { strategy, extractor }).
LoadBalancer_new(strategy, extractor, ws) ==
  LET made == IF strategy = "RoundRobin" THEN RoundRobin_new(ws) ELSE IpHash_new(ws)
  IN  IF made.ok
        THEN [ok |-> TRUE, strategy |-> made.obj, extractor |-> extractor]
        ELSE [ok |-> FALSE]

\* The startup code builds the LoadBalancer from the snapshot.
NewLoadBalancer ==
  /\ lbState = "none"
  /\ strategyArg \in {"RoundRobin", "IpHash"}
  /\ LET r == LoadBalancer_new(strategyArg, extractorArg, snapshot) IN
       IF r.ok
         THEN /\ strategies' = <<r.strategy>>
              /\ lbs' = <<[strategy |-> 1, extractor |-> r.extractor]>>
              /\ lbState' = "ok"
         ELSE /\ lbState' = "err"
              /\ UNCHANGED <<strategies, lbs>>
  /\ UNCHANGED <<token, snapshot, strategyArg, extractorArg, log, pending>>
  /\ UNCHANGED wvars

\* A clone that copies the strategy object into a new Arc instead of sharing it.
CloneDeep(h) ==
  /\ strategies' = Append(strategies, strategies[lbs[h].strategy])
  /\ lbs' = Append(lbs, [strategy |-> Len(strategies) + 1, extractor |-> lbs[h].extractor])

\* Clone for LoadBalancer: Arc::clone of the strategy (the same object), the
\* extractor copied.
Clone(h) ==
  /\ lbs' = Append(lbs, [strategy |-> lbs[h].strategy, extractor |-> lbs[h].extractor])
  /\ UNCHANGED strategies

\* A connection handler takes its own copy of LoadBalancer h.
CloneLoadBalancer(h) ==
  /\ h \in 1..Len(lbs)
  /\ Len(lbs) < 1 + MaxClones
  /\ Clone(h)
  /\ UNCHANGED <<token, snapshot, strategyArg, extractorArg, lbState, log, pending>>
  /\ UNCHANGED wvars

\* LoadBalancer::get_client(ip) on LoadBalancer h, up to the completion of
\* self.strategy.entry(ip): the strategy object the Arc points to is used.
get_client(h, ip) ==
  LET s == lbs[h].strategy
      r == entry(strategies[s], ip)
  IN  /\ strategies' = [strategies EXCEPT ![s] = r.obj]
      /\ log' = Append(log, [ip |-> ip, ticket |-> r.ticket, client |-> r.client])
      /\ pending' = pending \cup {[pos |-> Len(log) + 1, lb |-> h]}

GetClient(h, ip) ==
  /\ h \in 1..Len(lbs)
  /\ Len(log) < MaxCalls
  /\ Cardinality(pending) < MaxCallers
  /\ get_client(h, ip)
  /\ UNCHANGED <<token, snapshot, strategyArg, extractorArg, lbState, lbs>>
  /\ UNCHANGED wvars

\* get_client returns Ok(client) to its caller.
GetClientReturn(c) ==
  /\ c \in pending
  /\ pending' = pending \ {c}
  /\ UNCHANGED <<token, snapshot, strategyArg, extractorArg, lbState, strategies, lbs, log>>
  /\ UNCHANGED wvars

\* ----------------------------------------------------------- specification
\* Workers::new: an empty Vec; no Worker exists yet.
Init ==
  /\ workers = <<>>
  /\ pool = "alive"
  /\ call = [state |-> "idle", n |-> 0, left |-> 0, base |-> 0]
  /\ addrs = <<>>
  /\ stop = [w \in WorkerIds |-> FALSE]
  /\ socket_addr = [w \in WorkerIds |-> 0]
  /\ pc = [w \in WorkerIds |-> "none"]
  /\ result = [w \in WorkerIds |-> "none"]
  /\ child = [w \in WorkerIds |-> 0]
  /\ gen = [w \in WorkerIds |-> 0]
  /\ procs = [w \in WorkerIds |-> {}]
  /\ listening = [w \in WorkerIds |-> {}]
  /\ stopAtExit = [w \in WorkerIds |-> FALSE]
  /\ genAtStop = [w \in WorkerIds |-> 0]
  /\ token = "round_robin"
  /\ snapshot = <<>>
  /\ strategyArg = "unparsed"
  /\ extractorArg = "ClientAddr"
  /\ lbState = "none"
  /\ strategies = <<>>
  /\ lbs = <<>>
  /\ log = <<>>
  /\ pending = {}

Task(w) ==
  \/ TaskSpawnInitial(w)
  \/ TaskCheckStop(w)
  \/ TaskWait(w)
  \/ TaskRespawn(w)
  \/ TaskAssign(w)

Next ==
  \/ \E n \in 0..MaxWorkers : Workers_spawn(n)
  \/ SpawnIteration
  \/ GetSocketAddrs
  \/ DropWorkers
  \/ \E w \in WorkerIds : Drop(w)
  \/ \E w \in WorkerIds : Task(w)
  \/ \E w \in WorkerIds : ChildExit(w)
  \/ \E w \in WorkerIds : ChildBind(w)

Spec == Init /\ [][Next]_vars

\* The steps of a supervisor task the tokio scheduler takes when the task is
\* ready: every step but the wait, and the wait once the subprocess has
\* exited (the task is woken).  A wait that fails while the subprocess still
\* runs is possible and is not something the scheduler brings about.
Scheduled(w) ==
  \/ TaskSpawnInitial(w)
  \/ TaskCheckStop(w)
  \/ WaitReturns(w) /\ TaskWait(w)
  \/ TaskRespawn(w)
  \/ TaskAssign(w)

\* tokio runs every task that is ready.  Nothing obliges a subprocess to exit
\* or to bind its port, an operation to fail, or a caller to call.
FairSpec == Spec /\ \A w \in WorkerIds : WF_vars(Scheduled(w))

\* ------------------------------------------- the load balancer on its own
\* The pool has been spawned and its addresses taken; the snapshot is the
\* address list of a pool of up to MaxTargets Workers.
Snapshots == {[i \in 1..k |-> i] : k \in 0..MaxTargets}

\* Configuration tokens: the two literals and strings that are not them.
Tokens == {"round_robin", "ip_hash", "bogus", "RoundRobin", "ip_hash "}

LBInit ==
  /\ workers = <<>>
  /\ pool = "alive"
  /\ call = [state |-> "idle", n |-> 0, left |-> 0, base |-> 0]
  /\ addrs = <<>>
  /\ stop = [w \in WorkerIds |-> FALSE]
  /\ socket_addr = [w \in WorkerIds |-> 0]
  /\ pc = [w \in WorkerIds |-> "none"]
  /\ result = [w \in WorkerIds |-> "none"]
  /\ child = [w \in WorkerIds |-> 0]
  /\ gen = [w \in WorkerIds |-> 0]
  /\ procs = [w \in WorkerIds |-> {}]
  /\ listening = [w \in WorkerIds |-> {}]
  /\ stopAtExit = [w \in WorkerIds |-> FALSE]
  /\ genAtStop = [w \in WorkerIds |-> 0]
  /\ token \in Tokens
  /\ snapshot \in Snapshots
  /\ strategyArg = "unparsed"
  /\ extractorArg \in {"ClientAddr", "XForwardedFor"}
  /\ lbState = "none"
  /\ strategies = <<>>
  /\ lbs = <<>>
  /\ log = <<>>
  /\ pending = {}

LBNext ==
  \/ ParseStrategy
  \/ NewLoadBalancer
  \/ \E h \in 1..(1 + MaxClones) : CloneLoadBalancer(h)
  \/ \E h \in 1..(1 + MaxClones), ip \in Ips : GetClient(h, ip)
  \/ \E c \in pending : GetClientReturn(c)

LBSpec == LBInit /\ [][LBNext]_vars

\* ------------------------------------------------------------------ claims
IsPrefix(a, b) == Len(a) <= Len(b) /\ \A i \in 1..Len(a) : a[i] = b[i]

\* C1: if a Worker's stop flag is set before the subprocess its supervisor
\* waits on exits, no replacement subprocess is launched after that exit.
C1_NoRespawnAfterStop ==
  [][\A w \in WorkerIds : stopAtExit[w] => gen'[w] = gen[w]]_vars

\* C2: once a Worker's stop flag is set, a subprocess of it that is still
\* running is eventually terminated, whether or not it exits on its own.
C2_StopKillsChild ==
  \A w \in WorkerIds : (stop[w] /\ procs[w] # {}) ~> (procs[w] = {})

\* C3: each Worker has at most one live subprocess, and while the supervisor
\* is between the return of wait and the assignment of the new handle, the
\* process of the old handle is not alive.
C3_AtMostOneLive ==
  \A w \in WorkerIds :
    /\ Cardinality(procs[w]) <= 1
    /\ pc[w] \in {"respawn", "assign"} => child[w] \notin procs[w]

\* A replacement subprocess is the only live process of its Worker.
C3_Witness ==
  \E w \in WorkerIds : gen[w] >= 2 /\ procs[w] = {gen[w]} /\ pc[w] = "wait"

\* C4: if the subprocess exits while the stop flag is not set, the supervisor
\* eventually launches a replacement (unless the launch budget of the model
\* is used up).
C4_ExitRespawns ==
  \A w \in WorkerIds : \A g \in 1..MaxLaunches :
    (pc[w] = "wait" /\ gen[w] = g /\ child[w] \notin procs[w] /\ ~stop[w])
      ~> (gen[w] > g \/ Launched(MaxWorkers) >= MaxLaunches)

\* C5: a failed respawn inside the supervision loop is retried, never
\* abandoned: no supervisor task has terminated because its respawn failed.
C5_LoopFailureRetried ==
  \A w \in WorkerIds : result[w] # "ErrRespawn"

\* C6: no Worker that Worker::new returned Ok for (and Workers::spawn pushed)
\* is one whose initial subprocess could not be created.
C6_NewFailsOnSpawnError ==
  \A i \in 1..Len(workers) : result[workers[i]] # "ErrSpawn"

\* C7: Workers::spawn(n) returns Ok only with n Workers appended; when the
\* k-th Worker::new fails it returns the error with exactly the k-1 Workers
\* created before it appended and none after; no Worker of a live pool has its
\* stop flag set or its supervisor stopped, and the failing iteration changes
\* nothing of the Workers that exist.
C7_FailFastNoRollback ==
  /\ [](/\ call.state = "ok" => Len(workers) = call.base + call.n
        /\ call.state = "err" =>
             /\ call.left >= 1
             /\ Len(workers) = call.base + (call.n - call.left)
        /\ pool = "alive" =>
             \A i \in 1..Len(workers) :
               /\ ~stop[workers[i]]
               /\ pc[workers[i]] # "none"
               /\ result[workers[i]] # "Ok")
  /\ [][(call.state = "running" /\ call'.state = "err") =>
          /\ workers' = workers
          /\ stop' = stop
          /\ pc' = pc
          /\ procs' = procs]_vars

\* A spawn(2) whose second Worker::new failed, the first Worker still
\* supervised.
C7_Witness ==
  /\ call.state = "err"
  /\ call.n = 2
  /\ call.left = 1
  /\ Len(workers) >= 1
  /\ pc[workers[Len(workers)]] = "wait"

\* C8: get_socket_addrs yields the address of each Worker in the order the
\* Workers were created, and the list it returned last is a prefix of the
\* list it would return now.
C8_AddrsInSpawnOrder ==
  LET now == get_socket_addrs(workers) IN
  /\ Len(now) = Len(workers)
  /\ \A i \in 1..Len(now) : now[i] = socket_addr[i]
  /\ IsPrefix(addrs, now)

\* A snapshot was taken and the pool has grown since.
C8_Witness ==
  /\ Len(addrs) >= 1
  /\ Len(workers) > Len(addrs)
  /\ socket_addr[1] # socket_addr[2]

\* C9: over a RoundRobin LoadBalancer built from K targets, the i-th call
\* (i = 0, 1, ...) yields target number i mod K of the snapshot, whatever the
\* ip passed.
C9_RoundRobinIndex ==
  (lbState = "ok" /\ strategyArg = "RoundRobin") =>
    \A i \in 1..Len(log) :
      log[i].client = snapshot[((i - 1) % Len(snapshot)) + 1]

\* More calls than targets, with different ips, so that the index wraps.
C9_Witness ==
  /\ strategyArg = "RoundRobin"
  /\ Len(snapshot) = 3
  /\ Len(log) = 4
  /\ log[1].ip # log[4].ip
  /\ log[4].client = snapshot[1]

\* C10: the calls made through a RoundRobin LoadBalancer and its clones all
\* obtain different counter values, and n calls obtain the values 0 .. n-1.
C10_CounterShared ==
  (lbState = "ok" /\ strategyArg = "RoundRobin") =>
    /\ \A i, j \in 1..Len(log) : i # j => log[i].ticket # log[j].ticket
    /\ {log[i].ticket : i \in 1..Len(log)} = 0..(Len(log) - 1)

\* Two calls in flight at once, made through two different clones.
C10_Witness ==
  /\ strategyArg = "RoundRobin"
  /\ \E c, d \in pending : c.lb # d.lb /\ c.lb > 1 /\ d.lb > 1

\* C11: over an IpHash LoadBalancer, any two calls with the same ip yield the
\* same target, whatever calls were made in between.
C11_IpHashSticky ==
  (lbState = "ok" /\ strategyArg = "IpHash") =>
    \A i, j \in 1..Len(log) : log[i].ip = log[j].ip => log[i].client = log[j].client

\* Two calls with one ip, a call with another ip between them, and the two
\* ips on different targets.
C11_Witness ==
  /\ strategyArg = "IpHash"
  /\ Len(snapshot) >= 2
  /\ Len(log) >= 3
  /\ log[1].ip = log[3].ip
  /\ log[1].ip # log[2].ip
  /\ log[1].client # log[2].client

\* C12: LoadBalancer::new over an empty snapshot returns an error and no
\* LoadBalancer, with either strategy; every LoadBalancer that exists has a
\* strategy with at least one target.
C12_EmptySnapshotFails ==
  /\ (Len(snapshot) = 0 /\ lbState # "none") => (lbState = "err" /\ lbs = <<>>)
  /\ lbState = "err" => lbs = <<>>
  /\ \A h \in 1..Len(lbs) : Len(strategies[lbs[h].strategy].targets) >= 1

\* LoadBalancer::new was run over an empty snapshot with the IpHash strategy.
C12_Witness ==
  /\ Len(snapshot) = 0
  /\ strategyArg = "IpHash"
  /\ lbState = "err"

\* C13: from_str yields RoundRobin for "round_robin", IpHash for "ip_hash",
\* and an error, no Strategy, for every other token; without a Strategy no
\* LoadBalancer is built.
C13_FromStrExact ==
  strategyArg # "unparsed" =>
    /\ token = "round_robin" => strategyArg = "RoundRobin"
    /\ token = "ip_hash" => strategyArg = "IpHash"
    /\ token \notin {"round_robin", "ip_hash"} =>
         (strategyArg = "invalid strategy" /\ lbState = "none")

\* The token "bogus" has been parsed.
C13_Witness ==
  /\ token = "bogus"
  /\ strategyArg = "invalid strategy"

\* C14: the stop flag of a Worker is false when the Worker is created, is
\* never set back to false, and is set to true only by a step of the teardown
\* that changes nothing else of the Worker.
C14_StopMonotonic ==
  [][\A w \in WorkerIds :
       /\ stop[w] => stop'[w]
       /\ (pc[w] = "none" /\ pc'[w] # "none") => ~stop'[w]
       /\ (~stop[w] /\ stop'[w]) =>
            /\ pool = "dropped"
            /\ pc[w] # "none"
            /\ pc'[w] = pc[w]
            /\ procs'[w] = procs[w]]_vars

\* A flag that was set has been observed by the supervisor, still set.
C14_Witness ==
  \E w \in WorkerIds : stop[w] /\ pc[w] = "done" /\ result[w] = "Ok"

\* C15: every Worker of the pool has a supervisor task, and a Worker whose
\* stop flag is not set has a supervisor that is still running.
C15_SupervisorAlways ==
  \A i \in 1..Len(workers) :
    /\ pc[workers[i]] # "none"
    /\ ~stop[workers[i]] => pc[workers[i]] # "done"

\* What a step may change of Worker w.
WorkerState(w) ==
  <<stop[w], socket_addr[w], pc[w], result[w], child[w], gen[w], procs[w],
    listening[w]>>

\* C16: a step that changes something of one Worker (the exit or respawn of
\* its subprocess, a step of its supervisor, the setting of its stop flag)
\* leaves the stop flag, port, subprocesses and supervisor of every other
\* Worker as they were.
C16_WorkersIndependent ==
  [][\A w, v \in WorkerIds :
       (w # v /\ WorkerState(w)' # WorkerState(w)) => WorkerState(v)' = WorkerState(v)]_vars

\* One Worker is on its second subprocess and stopped while another still
\* waits on its first, unstopped.
C16_Witness ==
  \E w, v \in WorkerIds :
    /\ w # v
    /\ gen[w] >= 2
    /\ stop[w]
    /\ ~stop[v]
    /\ pc[v] = "wait"
    /\ procs[v] = {1}

\* C17: after the stop flag of a Worker has been set, its supervisor launches
\* at most one further subprocess.
C17_OneSpawnAfterStop ==
  \A w \in WorkerIds : stop[w] => gen[w] <= genAtStop[w] + 1

\* The flag was set, one more subprocess was launched (the initial one for
\* one Worker, a respawn for another), and the supervisor has returned.
C17_Witness ==
  /\ \E w \in WorkerIds :
       stop[w] /\ genAtStop[w] = 0 /\ gen[w] = 1 /\ pc[w] = "done" /\ result[w] = "Ok"
  /\ \E w \in WorkerIds :
       stop[w] /\ genAtStop[w] = 1 /\ gen[w] = 2 /\ pc[w] = "done" /\ result[w] = "Ok"

\* C18: a Worker whose supervisor task has terminated has no live
\* subprocess.
C18_NoOrphan ==
  \A w \in WorkerIds : pc[w] = "done" => procs[w] = {}

\* A supervisor returned on a wait error, or on the stop flag, after it had
\* launched a subprocess.
C18_Witness ==
  /\ \E w \in WorkerIds : pc[w] = "done" /\ result[w] = "ErrWait" /\ gen[w] >= 1
  /\ \E w \in WorkerIds : pc[w] = "done" /\ result[w] = "Ok" /\ gen[w] >= 1

\* The supervisor of w is blocked in child.wait() on a subprocess that has
\* not exited.
BlockedInWait(w) == pc[w] = "wait" /\ child[w] \in procs[w]

\* C19: once a Worker's stop flag is set, and provided the supervisor is not
\* blocked forever on a subprocess that never exits, the supervisor task
\* eventually terminates; and while the subprocess it is blocked on is still
\* running after a step, the supervisor is still in wait after that step.
C19_StopTerminates ==
  /\ \A w \in WorkerIds :
       ([]<>(~BlockedInWait(w))) =>
         ((stop[w] /\ pc[w] # "none") ~> (pc[w] = "done"))
  /\ [][\A w \in WorkerIds :
         (BlockedInWait(w) /\ child[w] \in procs'[w]) => pc'[w] = "wait"]_vars

\* The flag was set while a subprocess was running; the subprocess then
\* exited, wait returned (a replacement was launched), and the supervisor
\* has terminated.
C19_Witness ==
  \E w \in WorkerIds :
    /\ stop[w] /\ stopAtExit[w]
    /\ genAtStop[w] >= 1 /\ gen[w] > genAtStop[w]
    /\ pc[w] = "done"

\* C20: the Workers of a pool have pairwise distinct socket addresses.
C20_DistinctAddrs ==
  \A i, j \in 1..Len(workers) :
    i # j => socket_addr[workers[i]] # socket_addr[workers[j]]

=============================================================================
